---- MODULE Spec2Model ----
(***************************************************************************)
(* Authenticated session and resilient request layer of the freee invoice  *)
(* and quotation clients (show_invoice.py, show_quotation.py).  The two    *)
(* client classes share the session code line for line; the model follows  *)
(* show_invoice.py and names the matching lines of show_quotation.py in    *)
(* the comments.                                                           *)
(*                                                                         *)
(* Values.  Python's None (and every other falsy value) of a token or of a *)
(* company id is Absent; the tokens the token endpoint issues are numbered *)
(* by the server's generation counter `issued`, so that a pair issued by   *)
(* one token response is told apart from every earlier pair.               *)
(***************************************************************************)
EXTENDS Integers, Sequences, FiniteSets, TLC

\* ---------------------------------------------------------------- bounds
\* Number of companies the companies endpoint may list.
MaxCompanies == 2
\* Number of documents a list response may carry.
MaxDocs == 1

\* ------------------------------------------------------------- constants
\* self.access_token = None: the falsy value of a token / company id.
Absent == 0
\* response.status_code == 200
StatusOK == 200
\* response.status_code == 401
Unauthorized == 401
\* main: details are offered when len(invoices) <= 5
DetailLimit == 5

\* Statuses a server may answer with: success, expired token, another 4xx,
\* a 5xx.
Statuses == {200, 401, 404, 500}
\* Statuses of the token endpoint: success or rejection.
TokenStatuses == {200, 400}

CompanyIds == 1..MaxCompanies

\* The two scripts: show_invoice.py and show_quotation.py.
Kinds == {"invoice", "quotation"}

\* Company lists of the companies endpoint: sequences of distinct ids.
CompanyLists ==
    { s \in UNION { [1..n -> CompanyIds] : n \in 0..MaxCompanies } :
        \A i, j \in DOMAIN s : i # j => s[i] # s[j] }

VARIABLES
    pc,            \* position of the run
    exitCode,      \* process exit status once pc = "exit"
    args_reauth,   \* the --reauth flag
    kind,          \* the script run: "invoice" or "quotation"
    client_id,     \* CLIENT_ID of the environment
    client_secret, \* CLIENT_SECRET of the environment
    file,          \* the credential file TOKEN_FILE
    access_token,  \* self.access_token
    refresh_token, \* self.refresh_token
    company_id,    \* self.company_id
    tokens_loaded, \* self.tokens_loaded
    issued,        \* generation of the last token pair the server issued
    tokenResp,     \* the last response of the token endpoint
    caller,        \* which operation is inside _api_request
    req,           \* method, url, params and Authorization of the request
    response,      \* the local `response` of _api_request
    callLog,       \* what the current _api_request call did, in order
    companies,     \* the company list _fetch_company_id chooses from
    docsLeft,      \* documents whose detail is still to be fetched
    probes,        \* probe requests issued by _verify_token in this run
    refreshes,     \* invocations of _refresh_access_token in this run
    auths,         \* invocations of _authenticate in this run
    probe,         \* status and Authorization of the probe just made
    authCode,      \* the authorization code typed: "", "empty" or "given"
    exchanges,     \* code-exchange requests sent by _authenticate
    selection,     \* how the company id was settled: "", "kept", "none",
                   \* "auto" or "chosen"
    choice,        \* the last answer to the company prompt
    detailsWritten, \* detail sections main has written to the report
    other          \* a second process of the script on the same file

vars == << pc, exitCode, args_reauth, kind, client_id, client_secret, file,
           access_token, refresh_token,
           company_id, tokens_loaded, issued, tokenResp, caller, req,
           response, callLog, companies, docsLeft, probes, refreshes, auths,
           probe, authCode, exchanges, selection, choice, detailsWritten,
           other >>

config == << args_reauth, kind, client_id, client_secret >>
session == << access_token, refresh_token, company_id, tokens_loaded >>
callvars == << caller, req, response, callLog >>
counters == << probes, refreshes, auths >>
history == << probe, authCode, exchanges, selection, choice,
             detailsWritten >>

\* ------------------------------------------------------ credential file
NoFile == [state |-> "absent", access_token |-> Absent,
           refresh_token |-> Absent, company_id |-> Absent, extra |-> Absent]
\* A file that exists but json.load cannot read (truncated, not JSON).
CorruptFile == [NoFile EXCEPT !.state = "corrupt"]

\* json.dump(token_data): the record written is exactly token_data.
FileOf(token_data) ==
    [state |-> "ok", access_token |-> token_data.access_token,
     refresh_token |-> token_data.refresh_token,
     company_id |-> token_data.company_id, extra |-> token_data.extra]

\* os.path.exists(TOKEN_FILE)
FileExists(f) == f.state # "absent"

\* Outcomes of _save_tokens: written; open(...,'w') raised, file untouched;
\* open truncated the file and the write raised, file left unreadable.
SaveOutcomes == {"ok", "open_fail", "write_fail"}

\* Mutant of SaveTokens: the keys of the new record are merged into the
\* record of the file.
SaveTokensMerging(f, token_data, outcome) ==
    LET Merged(new, old) == IF new # Absent THEN new ELSE old
    IN  CASE outcome = "ok" ->
               [state |-> "ok",
                access_token |-> Merged(token_data.access_token,
                                        f.access_token),
                refresh_token |-> Merged(token_data.refresh_token,
                                         f.refresh_token),
                company_id |-> Merged(token_data.company_id, f.company_id),
                extra |-> Merged(token_data.extra, f.extra)]
          [] outcome = "open_fail" -> f
          [] outcome = "write_fail" -> CorruptFile

\* Mutant of SaveTokens: a failing open removes the file.
SaveTokensTruncating(f, token_data, outcome) ==
    CASE outcome = "ok" -> FileOf(token_data)
      [] outcome = "open_fail" -> NoFile
      [] outcome = "write_fail" -> CorruptFile

\* Mutant of SaveTokens: a file whose write failed is removed.
SaveTokensRemoving(f, token_data, outcome) ==
    CASE outcome = "ok" -> FileOf(token_data)
      [] outcome = "open_fail" -> f
      [] outcome = "write_fail" -> NoFile

SaveTokens(f, token_data, outcome) ==
    CASE outcome = "ok" -> FileOf(token_data)
      [] outcome = "open_fail" -> f
      [] outcome = "write_fail" -> CorruptFile

\* Token-endpoint bodies of a 200 response issuing generation g: either key
\* may be missing from the JSON object; company_id and the opaque fields
\* (token_type, expires_in, created_at, ...) come with the response.
TokenBodies(g) ==
    [access_token : {Absent, g}, refresh_token : {Absent, g},
     company_id : {Absent} \cup CompanyIds, extra : {g}]

NoTokenResp == [status |-> Absent, access_token |-> Absent,
                refresh_token |-> Absent, company_id |-> Absent,
                extra |-> Absent]

TokenResponse(status, body) ==
    [status |-> status, access_token |-> body.access_token,
     refresh_token |-> body.refresh_token, company_id |-> body.company_id,
     extra |-> body.extra]

\* ------------------------------------------------------------ requests
\* kwargs['params'] of a request: the companies request has none.
NoParams == [company_id |-> Absent, limit |-> Absent]
NoReq == [method |-> "", endpoint |-> "", params |-> NoParams, auth |-> Absent]
NoResp == [status |-> Absent, kind |-> "", companies |-> << >>, docs |-> 0]
\* No probe made, or a probe that got no answer.
NoProbe == [status |-> Absent, auth |-> Absent]

\* Bodies of a 200 answer, by endpoint: a JSON object, an HTML page
\* (Content-Type not JSON), or a body that does not decode; for a detail
\* request also a JSON object without the document key; for a list request
\* also JSON of a shape the listing loop cannot print (not an object, or a
\* total_amount that is not a number).
Bodies(endpoint) ==
    IF endpoint = "companies"
    THEN [kind : {"json"}, companies : CompanyLists, docs : {0}]
         \cup [kind : {"html", "malformed"}, companies : {<< >>}, docs : {0}]
    ELSE IF endpoint = "list"
    THEN [kind : {"json"}, companies : {<< >>}, docs : 0..MaxDocs]
         \cup [kind : {"html", "malformed", "badshape"}, companies : {<< >>},
               docs : {0}]
    ELSE [kind : {"json"}, companies : {<< >>}, docs : {1}]
         \cup [kind : {"nokey", "html", "malformed"}, companies : {<< >>},
               docs : {0}]

Responses(endpoint) ==
    { [status |-> StatusOK, kind |-> b.kind, companies |-> b.companies,
       docs |-> b.docs] : b \in Bodies(endpoint) }
    \cup { [status |-> s, kind |-> "", companies |-> << >>, docs |-> 0] :
             s \in Statuses \ {StatusOK} }

\* No second process: the script runs alone.
NoOther == [pc |-> "none", tokens |-> NoFile, company_id |-> Absent]

\* ---------------------------------------------------------------- Init
InitFiles ==
    {NoFile, CorruptFile}
    \cup { [state |-> "ok", access_token |-> a, refresh_token |-> r,
            company_id |-> c, extra |-> 1] :
             a \in {Absent, 1}, r \in {Absent, 1},
             c \in {Absent} \cup CompanyIds }

Init ==
    /\ pc = "main"
    /\ exitCode = 0
    /\ args_reauth \in BOOLEAN
    /\ kind \in Kinds
    /\ client_id \in {Absent, 1}
    /\ client_secret \in {Absent, 1}
    /\ file \in InitFiles
    /\ access_token = Absent
    /\ refresh_token = Absent
    /\ company_id = Absent
    /\ tokens_loaded = FALSE
    /\ issued = 1
    /\ tokenResp = NoTokenResp
    /\ caller = ""
    /\ req = NoReq
    /\ response = NoResp
    /\ callLog = << >>
    /\ companies = << >>
    /\ docsLeft = 0
    /\ probes = 0
    /\ refreshes = 0
    /\ auths = 0
    /\ probe = NoProbe
    /\ authCode = ""
    /\ exchanges = 0
    /\ selection = ""
    /\ choice = 0
    /\ detailsWritten = 0
    /\ other = NoOther

Exit(code) ==
    /\ pc' = "exit"
    /\ exitCode' = code

\* --------------------------------------------------------------- main
\* main, show_invoice.py 636-669 (show_quotation.py 710-742): --reauth, or
\* the answer '2' to the prompt, removes the credential file; a failing
\* os.remove is reported and the run goes on.
MainTokenFile ==
    /\ pc = "main"
    /\ \/ /\ args_reauth
          /\ FileExists(file)
          /\ \E removed \in BOOLEAN :
                file' = IF removed THEN NoFile ELSE file
       \/ /\ args_reauth
          /\ ~FileExists(file)
          /\ file' = file
       \/ /\ ~args_reauth
          /\ FileExists(file)
          /\ \E menu_choice \in {"1", "2"}, removed \in BOOLEAN :
                file' = IF menu_choice = "2" /\ removed THEN NoFile ELSE file
       \/ /\ ~args_reauth
          /\ ~FileExists(file)
          /\ file' = file
    /\ pc' = "init"
    /\ UNCHANGED << exitCode, config, other, session, issued, tokenResp,
                    callvars, companies, docsLeft, counters >>
    /\ UNCHANGED history

\* An exception propagates to the `except Exception` of main,
\* show_invoice.py 820 (show_quotation.py 884).
Raise ==
    /\ pc' = "main_except"
    /\ exitCode' = exitCode

\* Mutant of MainExcept: the handler reports the error and returns.
MainExceptSilent ==
    /\ pc = "main_except"
    /\ Exit(0)
    /\ UNCHANGED << config, other, file, session, issued, tokenResp, callvars,
                    companies, docsLeft, counters >>
    /\ UNCHANGED history

\* main, show_invoice.py 820-833 (show_quotation.py 884-897): the exception
\* is reported, an error file is written and the process exits with
\* status 1.
MainExcept ==
    /\ pc = "main_except"
    /\ Exit(1)
    /\ UNCHANGED << config, other, file, session, issued, tokenResp, callvars,
                    companies, docsLeft, counters >>
    /\ UNCHANGED history

\* ------------------------------------------------------------ session
\* Mutant of Configured: one of the two secrets is enough.
ConfiguredEither(id, secret) == id # Absent \/ secret # Absent

\* __init__, show_invoice.py 45 (show_quotation.py 50):
\* `if not self.client_id or not self.client_secret`.
Configured(id, secret) == id # Absent /\ secret # Absent

\* __init__, show_invoice.py 37-53 (show_quotation.py 42-58): the fields
\* are reset and a missing secret raises ValueError before anything else.
InitConfig ==
    /\ pc = "init"
    /\ IF Configured(client_id, client_secret)
       THEN pc' = "load" /\ exitCode' = exitCode
       ELSE Raise
    /\ UNCHANGED << config, other, file, session, issued, tokenResp, callvars,
                    companies, docsLeft, counters >>
    /\ UNCHANGED history

\* Mutant of AfterLoad: the probe is made whether or not a credential was
\* loaded.
AfterLoadAlwaysVerify(loaded) == "verify"

\* __init__, show_invoice.py 56 (show_quotation.py 61):
\* `not self.tokens_loaded or not self._verify_token()` short-circuits, so
\* the probe is made only for a loaded credential.
AfterLoad(loaded) == IF ~loaded THEN "authenticate" ELSE "verify"

\* _load_tokens, show_invoice.py 71-88 (show_quotation.py 76-93).
LoadTokens ==
    /\ pc = "load"
    /\ \/ /\ file.state = "ok"
          /\ access_token' = file.access_token
          /\ refresh_token' = file.refresh_token
          /\ company_id' = file.company_id
          /\ tokens_loaded' = TRUE
       \/ /\ file.state = "corrupt"
          /\ tokens_loaded' = FALSE
          /\ UNCHANGED << access_token, refresh_token, company_id >>
       \/ /\ file.state = "absent"
          /\ UNCHANGED session
    /\ pc' = AfterLoad(tokens_loaded')
    /\ UNCHANGED << exitCode, config, other, file, issued, tokenResp, callvars,
                    companies, docsLeft, counters >>
    /\ UNCHANGED history

\* Mutant of AfterProbe: only a 401 makes the credential suspect.
AfterProbeLenient(status) ==
    IF status = Unauthorized THEN "verify_refresh" ELSE "select"

\* Mutant of AfterProbe: every status but 200 leads to the refresh.
AfterProbeRefreshAny(status) ==
    IF status = StatusOK THEN "select" ELSE "verify_refresh"

\* Mutant of AfterProbe: an accepted token is refreshed all the same.
AfterProbeProactive(status) ==
    IF status = StatusOK \/ status = Unauthorized THEN "verify_refresh"
    ELSE "authenticate"

\* _verify_token, show_invoice.py 117-127 (show_quotation.py 122-132): the
\* branch on the probe's status.
AfterProbe(status) ==
    IF status = StatusOK THEN "select"
    ELSE IF status = Unauthorized THEN "verify_refresh"
    ELSE "authenticate"

\* _verify_token, show_invoice.py 96-131 (show_quotation.py 101-136), up to
\* the call of _refresh_access_token.  A False result makes __init__ call
\* _authenticate; a True result lets it go on to the company id.
VerifyToken ==
    /\ pc = "verify"
    /\ \/ /\ access_token = Absent
          /\ pc' = "authenticate"
          /\ probes' = probes
          /\ probe' = probe
       \/ /\ access_token # Absent
          /\ probes' = probes + 1
          /\ \/ /\ pc' = "authenticate"      \* requests.get raised
                /\ probe' = [status |-> Absent, auth |-> access_token]
             \/ \E status \in Statuses :
                   /\ pc' = AfterProbe(status)
                   /\ probe' = [status |-> status, auth |-> access_token]
    /\ UNCHANGED << exitCode, config, other, file, session, issued, tokenResp,
                    callvars, companies, docsLeft, refreshes, auths >>
    /\ UNCHANGED << authCode, exchanges, selection, choice, detailsWritten >>

\* Mutant of MergeCompanyId: the token response is saved as received.
MergeCompanyIdDropped(token_data, cid) == token_data

\* Mutant of MergeCompanyId: the company id of the response never survives.
MergeCompanyIdAlways(token_data, cid) ==
    [token_data EXCEPT !.company_id = cid]

\* _refresh_access_token, show_invoice.py 158-159 (show_quotation.py
\* 163-164): the company id in memory is written into the record to save.
MergeCompanyId(token_data, cid) ==
    IF cid # Absent THEN [token_data EXCEPT !.company_id = cid]
    ELSE token_data

TokenData(body) ==
    [access_token |-> body.access_token, refresh_token |-> body.refresh_token,
     company_id |-> body.company_id, extra |-> body.extra]

RefreshEv(ok) == [ev |-> "refresh", req |-> NoReq, resp |-> NoResp, ok |-> ok]
RequestEv(r, s, raised) ==
    [ev |-> "request", req |-> r, resp |-> s, ok |-> ~raised]

\* _refresh_access_token, show_invoice.py 133-171 (show_quotation.py
\* 138-176), called at `at`; `okPc` / `failPc` are where the caller goes on
\* a True / False result.
RefreshAccessToken(at, okPc, failPc) ==
    /\ pc = at
    /\ refreshes' = refreshes + 1
    /\ \/ \* 135-137: no refresh token, no request
          /\ refresh_token = Absent
          /\ pc' = failPc
          /\ callLog' = IF at = "api_refresh"
                        THEN Append(callLog, RefreshEv(FALSE)) ELSE callLog
          /\ UNCHANGED << access_token, refresh_token, file, issued,
                          tokenResp >>
       \/ \* 169-171: requests.post raised, or the 200 body is not JSON
          /\ refresh_token # Absent
          /\ pc' = failPc
          /\ tokenResp' = NoTokenResp
          /\ callLog' = IF at = "api_refresh"
                        THEN Append(callLog, RefreshEv(FALSE)) ELSE callLog
          /\ UNCHANGED << access_token, refresh_token, file, issued >>
       \/ \* 164-167: the token endpoint refused
          /\ refresh_token # Absent
          /\ \E status \in TokenStatuses \ {StatusOK} :
                tokenResp' = [NoTokenResp EXCEPT !.status = status]
          /\ pc' = failPc
          /\ callLog' = IF at = "api_refresh"
                        THEN Append(callLog, RefreshEv(FALSE)) ELSE callLog
          /\ UNCHANGED << access_token, refresh_token, file, issued >>
       \/ \* 153-163: 200; a missing key raises KeyError at 155 or 156, a
          \* failing save raises at 161, all caught at 169
          /\ refresh_token # Absent
          /\ \E body \in TokenBodies(issued + 1), outcome \in SaveOutcomes :
                LET gotAccess == body.access_token # Absent
                    gotBoth == gotAccess /\ body.refresh_token # Absent
                    ok == gotBoth /\ outcome = "ok"
                IN  /\ issued' = issued + 1
                    /\ tokenResp' = TokenResponse(StatusOK, body)
                    /\ access_token' =
                          IF gotAccess THEN body.access_token
                          ELSE access_token
                    /\ refresh_token' =
                          IF gotBoth THEN body.refresh_token
                          ELSE refresh_token
                    /\ file' =
                          IF gotBoth
                          THEN SaveTokens(file,
                                 MergeCompanyId(TokenData(body), company_id),
                                 outcome)
                          ELSE file
                    /\ pc' = IF ok THEN okPc ELSE failPc
                    /\ callLog' = IF at = "api_refresh"
                                  THEN Append(callLog, RefreshEv(ok))
                                  ELSE callLog
    /\ UNCHANGED << exitCode, config, other, company_id, tokens_loaded, caller,
                    req, response, companies, docsLeft, probes, auths >>
    /\ UNCHANGED history

\* Mutant of VerifyRefresh: a failed refresh ends the run.
VerifyRefreshFatal == RefreshAccessToken("verify_refresh", "select", "exit")

\* Mutant of VerifyRefresh: a failing refresh is an exception for main.
VerifyRefreshRaises ==
    RefreshAccessToken("verify_refresh", "select", "main_except")

\* Mutant of VerifyRefresh: refreshed tokens are probed again.
VerifyRefreshReprobe ==
    RefreshAccessToken("verify_refresh", "verify", "authenticate")

\* _verify_token, show_invoice.py 120-123 (show_quotation.py 125-128):
\* `return self._refresh_access_token()`.
VerifyRefresh == RefreshAccessToken("verify_refresh", "select", "authenticate")

AuthCodes == {"empty", "given"}

\* Mutant of AfterCode: the code typed is not checked.
AfterCodeUnchecked(code) == "exchange"

\* _authenticate, show_invoice.py 201-206 (show_quotation.py 206-211):
\* `input(...).strip()`; an empty code ends the process before any request.
AfterCode(code) == IF code = "empty" THEN "exit" ELSE "exchange"

\* Mutant of ExchangedCompanyId: a company id already held is kept.
ExchangedCompanyIdKept(token_company, held) ==
    IF held # Absent THEN held ELSE token_company

\* _authenticate, show_invoice.py 227 (show_quotation.py 232):
\* `self.company_id = token_data.get('company_id')`, None when missing.
ExchangedCompanyId(token_company, held) == token_company

\* _authenticate, show_invoice.py 173-240 (show_quotation.py 178-245).
Authenticate ==
    /\ pc = "authenticate"
    /\ auths' = auths + 1
    /\ probe' = NoProbe
    /\ \E code \in AuthCodes :
          /\ authCode' = code
          /\ \/ \* 204-206: empty authorization code
                /\ AfterCode(code) = "exit"
                /\ Exit(1)
                /\ UNCHANGED << access_token, refresh_token, company_id,
                                file, issued, tokenResp, exchanges >>
             \/ \* 238-240: requests.post raised, or the 200 body is not
                \* JSON
                /\ AfterCode(code) = "exchange"
                /\ exchanges' = exchanges + 1
                /\ Exit(1)
                /\ tokenResp' = NoTokenResp
                /\ UNCHANGED << access_token, refresh_token, company_id,
                                file, issued >>
             \/ \* 233-236: the token endpoint refused the code
                /\ AfterCode(code) = "exchange"
                /\ exchanges' = exchanges + 1
                /\ \E status \in TokenStatuses \ {StatusOK} :
                      tokenResp' = [NoTokenResp EXCEPT !.status = status]
                /\ Exit(1)
                /\ UNCHANGED << access_token, refresh_token, company_id,
                                file, issued >>
             \/ \* 223-232: 200; KeyError at 225 or 226 and a failing save
                \* at 229 are caught at 238 and end the process
                /\ AfterCode(code) = "exchange"
                /\ exchanges' = exchanges + 1
                /\ \E body \in TokenBodies(issued + 1),
                      outcome \in SaveOutcomes :
                      LET gotAccess == body.access_token # Absent
                          gotBoth == gotAccess /\ body.refresh_token # Absent
                          ok == gotBoth /\ outcome = "ok"
                      IN  /\ issued' = issued + 1
                          /\ tokenResp' = TokenResponse(StatusOK, body)
                          /\ access_token' =
                                IF gotAccess THEN body.access_token
                                ELSE access_token
                          /\ refresh_token' =
                                IF gotBoth THEN body.refresh_token
                                ELSE refresh_token
                          /\ company_id' =
                                IF gotBoth
                                THEN ExchangedCompanyId(body.company_id,
                                                        company_id)
                                ELSE company_id
                          /\ file' =
                                IF gotBoth
                                THEN SaveTokens(file, TokenData(body),
                                                outcome)
                                ELSE file
                          /\ IF ok
                             THEN pc' = "select" /\ exitCode' = exitCode
                             ELSE Exit(1)
    /\ UNCHANGED << config, other, tokens_loaded, callvars, companies,
                    docsLeft, probes, refreshes, selection, choice,
                    detailsWritten >>

\* -------------------------------------------------------- _api_request
\* _api_request, show_invoice.py 283-298 (show_quotation.py 288-306): the
\* headers carry the access token held when the call starts.
StartCall(who, endpoint, params) ==
    /\ caller' = who
    /\ req' = [method |-> "GET", endpoint |-> endpoint, params |-> params,
               auth |-> access_token]
    /\ response' = NoResp
    /\ callLog' = << >>
    /\ pc' = "api_send"

\* The locals of _api_request (and the record of the last token response)
\* are gone once the caller has used the returned response.
EndCall ==
    /\ caller' = ""
    /\ req' = NoReq
    /\ response' = NoResp
    /\ callLog' = << >>
    /\ tokenResp' = NoTokenResp

\* Mutant of AfterFirst: one refresh allowance for the whole session.
AfterFirstGlobalBudget(status) ==
    IF status = Unauthorized /\ refreshes = 0
    THEN "api_refresh" ELSE "api_return"

\* Mutant of AfterFirst: every failure status leads to the refresh.
AfterFirstAnyFailure(status) ==
    IF status # StatusOK THEN "api_refresh" ELSE "api_return"

\* _api_request, show_invoice.py 311-313 (show_quotation.py 319-321): only
\* a 401 leads to the refresh; every other status goes to `return response`.
AfterFirst(status) ==
    IF status = Unauthorized THEN "api_refresh" ELSE "api_return"

\* _api_request, show_invoice.py 300-311 (show_quotation.py 308-319): the
\* first requests.request; an exception is re-raised at 326-328.
ApiSend ==
    /\ pc = "api_send"
    /\ \/ /\ callLog' = Append(callLog, RequestEv(req, NoResp, TRUE))
          /\ pc' = "api_raise"
          /\ response' = response
       \/ \E r \in Responses(req.endpoint) :
             /\ response' = r
             /\ callLog' = Append(callLog, RequestEv(req, r, FALSE))
             /\ pc' = AfterFirst(r.status)
    /\ UNCHANGED << exitCode, config, other, file, session, issued, tokenResp,
                    caller, req, companies, docsLeft, counters >>
    /\ UNCHANGED history

\* Mutant of ApiRefresh: the retry is made whatever the refresh returned.
ApiRefreshRetryAlways ==
    RefreshAccessToken("api_refresh", "api_retry", "api_retry")

\* Mutant of ApiRefresh: a failed refresh falls back to _authenticate.
ApiRefreshReauth ==
    RefreshAccessToken("api_refresh", "api_retry", "authenticate")

\* _api_request, show_invoice.py 313 (show_quotation.py 321):
\* `if self._refresh_access_token():` - True leads to the retry, False
\* falls through to `return response`.
ApiRefresh == RefreshAccessToken("api_refresh", "api_retry", "api_return")

\* Mutant of RetryAuthorization: the header of the first request is reused.
RetryAuthorizationStale(old, token) == old

\* _api_request, show_invoice.py 314 (show_quotation.py 322): the
\* Authorization header is rebuilt from self.access_token.
RetryAuthorization(old, token) == token

\* Mutant of AfterRetry: a 401 on the retry refreshes again.
AfterRetryLoop(status) ==
    IF status = Unauthorized THEN "api_refresh" ELSE "api_return"

\* _api_request, show_invoice.py 315-324 (show_quotation.py 323-332): the
\* response of the retry is returned whatever its status.
AfterRetry(status) == "api_return"

\* _api_request, show_invoice.py 314-322 (show_quotation.py 322-330): the
\* retry, with the same method, url and kwargs.
ApiRetry ==
    /\ pc = "api_retry"
    /\ req' = [req EXCEPT !.auth = RetryAuthorization(req.auth, access_token)]
    /\ \/ /\ callLog' = Append(callLog, RequestEv(req', NoResp, TRUE))
          /\ pc' = "api_raise"
          /\ response' = response
       \/ \E r \in Responses(req.endpoint) :
             /\ response' = r
             /\ callLog' = Append(callLog, RequestEv(req', r, FALSE))
             /\ pc' = AfterRetry(r.status)
    /\ UNCHANGED << exitCode, config, other, file, session, issued, tokenResp,
                    caller, companies, docsLeft, counters >>
    /\ UNCHANGED history

\* Mutant of ApiRaised: a request that raised is sent once more.
ApiRaisedRetry ==
    /\ pc = "api_raise"
    /\ IF Len(callLog) < 2
       THEN /\ pc' = "api_retry"
            /\ UNCHANGED << exitCode, caller, req, response, callLog,
                            tokenResp >>
       ELSE Exit(1) /\ EndCall
    /\ UNCHANGED << config, other, file, session, issued, companies, docsLeft,
                    counters >>
    /\ UNCHANGED history

\* main, show_invoice.py 820-833 (show_quotation.py 884-897): an exception
\* out of _api_request is caught by no caller before main, which reports it
\* and exits with status 1.
ApiRaised ==
    /\ pc = "api_raise"
    /\ Exit(1)
    /\ EndCall
    /\ UNCHANGED << config, other, file, session, issued, companies, docsLeft,
                    counters >>
    /\ UNCHANGED history

\* get_company_info, show_invoice.py 335-345 (show_quotation.py 343-353):
\* the list under 'companies' of a 200 answer, [] for any other status.
\* response.json() is not guarded: a body that does not decode raises.
CompanyInfoRaises(r) == r.status = StatusOK /\ r.kind # "json"
CompanyInfo(r) == IF r.status = StatusOK THEN r.companies ELSE << >>

\* ---------------------------------------------------- company selection
\* Mutant of NeedsCompany: the company list is fetched on every start.
NeedsCompanyAlways(cid) == TRUE

\* __init__, show_invoice.py 61 (show_quotation.py 66):
\* `if not self.company_id`.
NeedsCompany(cid) == cid = Absent

\* __init__, show_invoice.py 60-65 (show_quotation.py 65-70).
InitCompany ==
    /\ pc = "select"
    /\ IF NeedsCompany(company_id)
       THEN /\ StartCall("fetch_company", "companies", NoParams)
            /\ selection' = selection
       ELSE /\ pc' = "constructed"
            /\ selection' = "kept"
            /\ UNCHANGED callvars
    /\ tokenResp' = NoTokenResp
    /\ probe' = NoProbe
    /\ UNCHANGED << exitCode, config, other, file, session, issued, companies,
                    docsLeft, counters, authCode, exchanges, choice,
                    detailsWritten >>

\* Mutant of PersistCompany: the record saved is built from the session
\* instead of from the file.
PersistCompanyFromSession(f, cid, outcome) ==
    IF f.state = "ok"
    THEN SaveTokens(f, [access_token |-> access_token,
                        refresh_token |-> refresh_token,
                        company_id |-> cid, extra |-> Absent], outcome)
    ELSE f

\* _fetch_company_id, show_invoice.py 270-277 (show_quotation.py 275-282):
\* read the file, set company_id, save; every failure is caught.
PersistCompany(f, cid, outcome) ==
    IF f.state = "ok"
    THEN SaveTokens(f, [access_token |-> f.access_token,
                        refresh_token |-> f.refresh_token,
                        company_id |-> cid, extra |-> f.extra], outcome)
    ELSE f

\* Mutant of PickCompany: the first company whatever the answer.
PickCompanyFirst(list, k) == list[1]

\* _fetch_company_id, show_invoice.py 255-257 and 266 (show_quotation.py
\* 260-262 and 271): `companies[idx].get('id')` with idx = k - 1.
PickCompany(list, k) == list[k]

\* _fetch_company_id, show_invoice.py 242-279 (show_quotation.py 247-284),
\* from the return of get_company_info to the prompt or the save.
FetchCompanyId ==
    /\ pc = "api_return"
    /\ caller = "fetch_company"
    /\ \/ /\ CompanyInfoRaises(response)
          /\ Raise
          /\ UNCHANGED << company_id, file, companies, selection >>
       \/ /\ ~CompanyInfoRaises(response)
          /\ Len(CompanyInfo(response)) = 0
          /\ pc' = "constructed"
          /\ selection' = "none"
          /\ UNCHANGED << exitCode, company_id, file, companies >>
       \/ /\ ~CompanyInfoRaises(response)
          /\ Len(CompanyInfo(response)) = 1
          /\ company_id' = PickCompany(CompanyInfo(response), 1)
          /\ \E outcome \in SaveOutcomes :
                file' = PersistCompany(file, company_id', outcome)
          /\ pc' = "constructed"
          /\ selection' = "auto"
          /\ UNCHANGED << exitCode, companies >>
       \/ /\ ~CompanyInfoRaises(response)
          /\ Len(CompanyInfo(response)) > 1
          /\ companies' = CompanyInfo(response)
          /\ pc' = "choose_company"
          /\ UNCHANGED << exitCode, company_id, file, selection >>
    /\ EndCall
    /\ UNCHANGED << config, other, access_token, refresh_token, tokens_loaded,
                    issued, docsLeft, counters, probe, authCode, exchanges,
                    choice, detailsWritten >>

\* _fetch_company_id, show_invoice.py 252-264 (show_quotation.py 257-269):
\* one answer to the prompt; 0 stands for an answer that is not a number.
ChooseCompany ==
    /\ pc = "choose_company"
    /\ \E k \in 0..(Len(companies) + 1) :
          /\ choice' = k
          /\ IF k \in 1..Len(companies)
             THEN /\ company_id' = PickCompany(companies, k)
                  /\ \E outcome \in SaveOutcomes :
                        file' = PersistCompany(file, company_id', outcome)
                  /\ pc' = "constructed"
                  /\ selection' = "chosen"
             ELSE UNCHANGED << company_id, file, pc, selection >>
    /\ UNCHANGED << exitCode, config, other, access_token, refresh_token,
                    tokens_loaded, issued, tokenResp, callvars, companies,
                    docsLeft, counters, probe, authCode, exchanges,
                    detailsWritten >>

\* ------------------------------------------------------ document calls
\* main, show_invoice.py 673-675 (show_quotation.py 745-747):
\* `companies = api.get_company_info()` once the client is constructed.
MainGetCompanyInfo ==
    /\ pc = "constructed"
    /\ StartCall("main_companies", "companies", NoParams)
    \* the locals of _fetch_company_id are gone
    /\ companies' = << >>
    /\ choice' = 0
    /\ UNCHANGED << exitCode, config, other, file, session, issued, tokenResp,
                    docsLeft, counters >>
    /\ UNCHANGED << probe, authCode, exchanges, selection, detailsWritten >>

\* Mutant of CurrentCompany: a session without a company id passes.
CurrentCompanyOrNone(list, cid) ==
    cid = Absent \/ \E i \in DOMAIN list : list[i] = cid

\* Mutant of CurrentCompany: any listed company passes for the current one.
CurrentCompanyAny(list, cid) == Len(list) > 0

\* main, show_invoice.py 684-688 (show_quotation.py 756-760): the company
\* of the list whose id is api.company_id.
CurrentCompany(list, cid) == \E i \in DOMAIN list : list[i] = cid

\* main, show_invoice.py 677-694 (show_quotation.py 749-766): the list
\* main fetched is read here and nowhere after.
MainCompanies ==
    /\ pc = "api_return"
    /\ caller = "main_companies"
    /\ \/ /\ CompanyInfoRaises(response)
          /\ Raise
          /\ companies' = companies
       \/ /\ ~CompanyInfoRaises(response)
          /\ companies' = companies
          /\ LET list == CompanyInfo(response)
             IN  IF Len(list) > 0 /\ CurrentCompany(list, company_id)
                 THEN pc' = "menu" /\ exitCode' = exitCode
                 ELSE IF Len(list) > 0
                 THEN Exit(0)
                 ELSE \* 677-682: the note is written to output_file;
                      \* open or write raising is caught at 820
                      Exit(0) \/ Raise
    /\ EndCall
    /\ UNCHANGED << config, other, file, session, issued, docsLeft, counters >>
    /\ UNCHANGED history

\* main, show_invoice.py 711-754: the limits the menu passes to get_invoices
\* (show_quotation.py 783-818, get_quotations).
MenuLimits == {100, 10}

Min(a, b) == IF a < b THEN a ELSE b

\* get_invoices, show_invoice.py 363-366: `'limit': limit`;
\* get_quotations, show_quotation.py 379-382: `'limit': min(limit, 100)`.
ListLimit(k, limit) == IF k = "quotation" THEN Min(limit, 100) ELSE limit

\* Mutant of GetDocuments: the request is sent whatever the company id.
GetDocumentsUnscoped(limit) ==
    /\ StartCall("list", "list",
          [company_id |-> company_id, limit |-> ListLimit(kind, limit)])
    /\ docsLeft' = docsLeft

\* The head of get_invoices, show_invoice.py 347-376 (get_quotations,
\* show_quotation.py 355-392): without a company id the result is []
\* and no request is made.
GetDocuments(limit) ==
    IF company_id = Absent
    THEN /\ pc' = "report"
         /\ docsLeft' = 0
         /\ UNCHANGED callvars
    ELSE /\ StartCall("list", "list",
               [company_id |-> company_id, limit |-> ListLimit(kind, limit)])
         /\ docsLeft' = docsLeft

\* main, show_invoice.py 696-759 (show_quotation.py 768-823): an invalid
\* answer ends the run; a valid one calls the list operation.
MainMenu ==
    /\ pc = "menu"
    /\ \/ /\ Exit(0)
          /\ UNCHANGED << callvars, docsLeft >>
       \/ /\ \E limit \in MenuLimits : GetDocuments(limit)
          /\ exitCode' = exitCode
    /\ UNCHANGED << config, other, file, session, issued, tokenResp,
                    companies, counters >>
    /\ UNCHANGED history

\* Mutant of ListRaises: no Content-Type test and no handler around the
\* decoding.
ListRaisesUndecodable(r) ==
    r.status = StatusOK /\ r.kind \in {"badshape", "html", "malformed"}

\* Mutant of ListRaises: a failure status is raised as an exception.
ListRaisesForStatus(r) ==
    r.status # StatusOK \/ r.kind = "badshape"

\* get_invoices, show_invoice.py 378-414 (get_quotations, show_quotation.py
\* 394-418): only json.JSONDecodeError is caught; `data.get` on JSON that
\* is not an object and the `:,` format of a total_amount that is not a
\* number raise out of the operation.
ListRaises(r) == r.status = StatusOK /\ r.kind = "badshape"

\* get_invoices, show_invoice.py 378-433 (get_quotations, show_quotation.py
\* 394-436): the number of documents returned for a response; [] for a
\* Content-Type that is not JSON, a body that does not decode and every
\* status but 200.
ListResult(r) ==
    IF r.status = StatusOK /\ r.kind = "json" THEN r.docs ELSE 0

\* The return of get_invoices to main, show_invoice.py 711-763
\* (get_quotations, show_quotation.py 783-827): `invoices` is the result.
MainList ==
    /\ pc = "api_return"
    /\ caller = "list"
    /\ IF ListRaises(response)
       THEN Raise /\ docsLeft' = docsLeft
       ELSE /\ docsLeft' = ListResult(response)
            /\ pc' = "report"
            /\ exitCode' = exitCode
    /\ EndCall
    /\ UNCHANGED << config, other, file, session, issued, companies,
                    counters >>
    /\ UNCHANGED history

\* main, show_invoice.py 765-818 (show_quotation.py 829-882): details are
\* offered for 1 to 5 documents; the report file is opened and written,
\* which may raise.
MainReport ==
    /\ pc = "report"
    /\ \E show \in BOOLEAN :
          IF docsLeft > 0 /\ docsLeft <= DetailLimit /\ show
          THEN /\ pc' = "details"
               /\ exitCode' = exitCode
               /\ docsLeft' = docsLeft
          ELSE /\ Exit(0) \/ Raise
               /\ docsLeft' = 0
    /\ UNCHANGED << config, other, file, session, issued, tokenResp, callvars,
                    companies, counters >>
    /\ UNCHANGED history

\* main, show_invoice.py 787-797 (show_quotation.py 852-862) and the head
\* of get_invoice_detail, 435-445 (get_quotation_detail, 438-449).
MainDetail ==
    /\ pc = "details"
    /\ IF docsLeft = 0
       THEN /\ Exit(0) \/ Raise
            /\ UNCHANGED << callvars, docsLeft >>
       ELSE /\ docsLeft' = docsLeft - 1
            /\ exitCode' = exitCode
            /\ IF company_id = Absent
               THEN pc' = "details" /\ UNCHANGED callvars
               ELSE StartCall("detail", "detail",
                       [company_id |-> company_id, limit |-> Absent])
    /\ UNCHANGED << config, other, file, session, issued, tokenResp,
                    companies, counters >>
    /\ UNCHANGED history

\* get_invoice_detail, show_invoice.py 447-458 (get_quotation_detail,
\* show_quotation.py 451-462): a 200 JSON body without the document key
\* makes `invoice.get` raise on None, which only main catches.
DetailRaises(r) == r.status = StatusOK /\ r.kind = "nokey"

\* get_invoice_detail, show_invoice.py 447-457 (get_quotation_detail,
\* show_quotation.py 451-461): the document is returned for a 200 JSON body
\* holding it; None for a body that does not decode and every other status.
DetailFound(r) == r.status = StatusOK /\ r.kind = "json"

\* The return of get_invoice_detail to main, show_invoice.py 793-796
\* (show_quotation.py 858-861): a document found is written to the report.
DetailReturn ==
    /\ pc = "api_return"
    /\ caller = "detail"
    /\ IF DetailRaises(response)
       THEN Raise /\ detailsWritten' = detailsWritten
       ELSE /\ pc' = "details"
            /\ exitCode' = exitCode
            /\ detailsWritten' =
                  IF DetailFound(response) THEN detailsWritten + 1
                  ELSE detailsWritten
    /\ EndCall
    /\ UNCHANGED << config, other, file, session, issued, companies, docsLeft,
                    counters >>
    /\ UNCHANGED << probe, authCode, exchanges, selection, choice >>

\* ---------------------------------------------------------------- spec
Next ==
    \/ MainTokenFile
    \/ MainExcept
    \/ InitConfig
    \/ LoadTokens
    \/ VerifyToken
    \/ VerifyRefresh
    \/ Authenticate
    \/ InitCompany
    \/ FetchCompanyId
    \/ ChooseCompany
    \/ MainGetCompanyInfo
    \/ ApiSend
    \/ ApiRefresh
    \/ ApiRetry
    \/ ApiRaised
    \/ MainCompanies
    \/ MainMenu
    \/ MainList
    \/ MainReport
    \/ MainDetail
    \/ DetailReturn

Spec == Init /\ [][Next]_vars

\* ------------------------------------------------- save and load alone
\* Records handed to _save_tokens: any key may be missing (or null).
RoundTripRecords ==
    [access_token : {Absent, 2}, refresh_token : {Absent, 2},
     company_id : {Absent} \cup CompanyIds, extra : {Absent, 2}]

\* A run that holds a record to save over any file, or a fresh run about to
\* load any file.
RoundTripInit ==
    /\ \/ /\ pc = "save"
          /\ tokenResp \in
                { TokenResponse(StatusOK, c) : c \in RoundTripRecords }
       \/ /\ pc = "load"
          /\ tokenResp = NoTokenResp
    /\ exitCode = 0
    /\ args_reauth = FALSE
    /\ kind \in Kinds
    /\ client_id = 1
    /\ client_secret = 1
    /\ file \in InitFiles
    /\ access_token = Absent
    /\ refresh_token = Absent
    /\ company_id = Absent
    /\ tokens_loaded = FALSE
    /\ issued = 2
    /\ caller = ""
    /\ req = NoReq
    /\ response = NoResp
    /\ callLog = << >>
    /\ companies = << >>
    /\ docsLeft = 0
    /\ probes = 0
    /\ refreshes = 0
    /\ auths = 0
    /\ probe = NoProbe
    /\ authCode = ""
    /\ exchanges = 0
    /\ selection = ""
    /\ choice = 0
    /\ detailsWritten = 0
    /\ other = NoOther

\* _save_tokens, show_invoice.py 90-94 (show_quotation.py 95-99), applied
\* to the record held; the next run loads the file. A save that raises
\* ends the run.
RoundTripSave ==
    /\ pc = "save"
    /\ \E outcome \in SaveOutcomes :
          /\ file' = SaveTokens(file, TokenData(tokenResp), outcome)
          /\ IF outcome = "ok"
             THEN pc' = "load" /\ exitCode' = exitCode
             ELSE Exit(1)
    /\ UNCHANGED << config, other, session, issued, tokenResp, callvars,
                    companies, docsLeft, counters >>
    /\ UNCHANGED history

RoundTripNext ==
    \/ RoundTripSave
    \/ LoadTokens

RoundTripSpec == RoundTripInit /\ [][RoundTripNext]_vars

\* -------------------------------------------- session establishment alone
\* main up to the end of session establishment in __init__, show_invoice.py
\* 52-58 (show_quotation.py 57-63): the steps before the company id is
\* looked at.
EstablishNext ==
    \/ MainTokenFile
    \/ InitConfig
    \/ MainExcept
    \/ LoadTokens
    \/ VerifyToken
    \/ VerifyRefresh
    \/ Authenticate

\* Every network call returns or fails and the prompt is answered: a step
\* that can be taken is taken.
EstablishSpec == Init /\ [][EstablishNext]_vars /\ WF_vars(EstablishNext)

\* ------------------------------------------- two processes, one file
\* A second process of the same script runs against the same credential
\* file and token endpoint.  Of it the model keeps what touches the file:
\* its load, its refresh (response received, then saved) and the
\* read-modify-write of its company selection (file read, then saved).
\* Nothing locks the file, so steps of the first process come in between;
\* the first process is followed until its client is constructed.
own == << pc, exitCode, config, session, tokenResp, callvars, companies,
          docsLeft, counters, history >>

TwoInstanceInit ==
    /\ pc = "main"
    /\ exitCode = 0
    /\ args_reauth = FALSE
    /\ kind \in Kinds
    /\ client_id = 1
    /\ client_secret = 1
    /\ file \in { [state |-> "ok", access_token |-> 1, refresh_token |-> 1,
                    company_id |-> c, extra |-> 1] :
                      c \in {Absent} \cup CompanyIds }
    /\ access_token = Absent
    /\ refresh_token = Absent
    /\ company_id = Absent
    /\ tokens_loaded = FALSE
    /\ issued = 1
    /\ tokenResp = NoTokenResp
    /\ caller = ""
    /\ req = NoReq
    /\ response = NoResp
    /\ callLog = << >>
    /\ companies = << >>
    /\ docsLeft = 0
    /\ probes = 0
    /\ refreshes = 0
    /\ auths = 0
    /\ probe = NoProbe
    /\ authCode = ""
    /\ exchanges = 0
    /\ selection = ""
    /\ choice = 0
    /\ detailsWritten = 0
    /\ other = [NoOther EXCEPT !.pc = "load"]

\* _load_tokens in the second process, show_invoice.py 71-88.
OtherLoadTokens ==
    /\ other.pc = "load"
    /\ file.state = "ok"
    /\ other' = [pc |-> "loaded", tokens |-> file,
                 company_id |-> file.company_id]
    /\ UNCHANGED << own, file, issued >>

\* _refresh_access_token in the second process, show_invoice.py 148-159:
\* the token endpoint answers 200 with a new pair, which is assigned; the
\* record to save is built.
OtherRefresh ==
    /\ other.pc = "loaded"
    /\ other.tokens.refresh_token # Absent
    /\ issued' = issued + 1
    /\ \E body \in TokenBodies(issued + 1) :
          /\ body.access_token # Absent
          /\ body.refresh_token # Absent
          /\ other' = [other EXCEPT
                         !.pc = "refreshed",
                         !.tokens = FileOf(MergeCompanyId(TokenData(body),
                                                          other.company_id))]
    /\ UNCHANGED << own, file >>

\* _refresh_access_token in the second process, show_invoice.py 161: the
\* save of the record built.
OtherSaveTokens ==
    /\ other.pc = "refreshed"
    /\ file' = SaveTokens(file, other.tokens, "ok")
    /\ other' = [other EXCEPT !.pc = "saved"]
    /\ UNCHANGED << own, issued >>

\* _fetch_company_id in the second process, show_invoice.py 270-274: a
\* company was selected, the file is read and company_id set in the record
\* read.
OtherSelectRead ==
    /\ other.pc \in {"loaded", "saved"}
    /\ other.company_id = Absent
    /\ file.state = "ok"
    /\ \E cid \in CompanyIds :
          other' = [pc |-> "selecting",
                    tokens |-> [file EXCEPT !.company_id = cid],
                    company_id |-> cid]
    /\ UNCHANGED << own, file, issued >>

\* _fetch_company_id in the second process, show_invoice.py 275: the save
\* of the record read.
OtherSelectSave ==
    /\ other.pc = "selecting"
    /\ file' = SaveTokens(file, other.tokens, "ok")
    /\ other' = [other EXCEPT !.pc = "done"]
    /\ UNCHANGED << own, issued >>

TwoInstanceNext ==
    \/ MainTokenFile
    \/ MainExcept
    \/ InitConfig
    \/ LoadTokens
    \/ VerifyToken
    \/ VerifyRefresh
    \/ Authenticate
    \/ InitCompany
    \/ FetchCompanyId
    \/ ChooseCompany
    \/ ApiSend
    \/ ApiRefresh
    \/ ApiRetry
    \/ ApiRaised
    \/ OtherLoadTokens
    \/ OtherRefresh
    \/ OtherSaveTokens
    \/ OtherSelectRead
    \/ OtherSelectSave

TwoInstanceSpec == TwoInstanceInit /\ [][TwoInstanceNext]_vars

\* ------------------------------------------------- the quotation client
\* The decisions of FreeeQuotationAPI, read from show_quotation.py, to set
\* beside those of FreeeInvoiceAPI above.
API_BASE_URL == "https://api.freee.co.jp"
INVOICE_API_BASE == "/iv"

\* _api_request, show_invoice.py 292: `url = f'{API_BASE_URL}{endpoint}'`.
ApiUrl(endpoint) == << API_BASE_URL, endpoint >>

\* _api_request, show_quotation.py 297-300: the base of the invoice API is
\* inserted when use_invoice_api is set.
QuotationApiUrl(endpoint, use_invoice_api) ==
    IF use_invoice_api THEN << API_BASE_URL, INVOICE_API_BASE, endpoint >>
    ELSE << API_BASE_URL, endpoint >>

\* get_company_info, show_quotation.py 341: `use_invoice_api=False`.
QuotationCompaniesUrl == QuotationApiUrl("companies", FALSE)

\* __init__, show_quotation.py 50.
QuotationConfigured(id, secret) == ~(id = Absent \/ secret = Absent)

\* __init__, show_quotation.py 61.
QuotationAfterLoad(loaded) ==
    IF loaded THEN "verify" ELSE "authenticate"

\* __init__, show_quotation.py 66.
QuotationNeedsCompany(cid) == cid = Absent

\* _save_tokens, show_quotation.py 95-99.
QuotationSaveTokens(f, token_data, outcome) ==
    IF outcome = "open_fail" THEN f
    ELSE IF outcome = "write_fail" THEN CorruptFile
    ELSE [state |-> "ok", access_token |-> token_data.access_token,
          refresh_token |-> token_data.refresh_token,
          company_id |-> token_data.company_id,
          extra |-> token_data.extra]

\* Mutant of QuotationAfterProbe: every failing probe leads to the refresh.
QuotationAfterProbeRefreshAny(status) ==
    IF status = StatusOK THEN "select" ELSE "verify_refresh"

\* _verify_token, show_quotation.py 122-132.
QuotationAfterProbe(status) ==
    CASE status = StatusOK -> "select"
      [] status = Unauthorized -> "verify_refresh"
      [] OTHER -> "authenticate"

\* _refresh_access_token, show_quotation.py 163-164.
QuotationMergeCompanyId(token_data, cid) ==
    IF cid = Absent THEN token_data
    ELSE [token_data EXCEPT !.company_id = cid]

\* _authenticate, show_quotation.py 206-211.
QuotationAfterCode(code) == IF code = "empty" THEN "exit" ELSE "exchange"

\* _fetch_company_id, show_quotation.py 260-262 and 271.
QuotationPickCompany(list, k) == list[(k - 1) + 1]

\* _fetch_company_id, show_quotation.py 275-282.
QuotationPersistCompany(f, cid, outcome) ==
    IF f.state # "ok" THEN f
    ELSE QuotationSaveTokens(f, [access_token |-> f.access_token,
                                 refresh_token |-> f.refresh_token,
                                 company_id |-> cid, extra |-> f.extra],
                             outcome)

\* _api_request, show_quotation.py 319-321.
QuotationAfterFirst(status) ==
    IF status = Unauthorized THEN "api_refresh" ELSE "api_return"

\* _api_request, show_quotation.py 322.
QuotationRetryAuthorization(old, token) == token

\* _api_request, show_quotation.py 323-332.
QuotationAfterRetry(status) == "api_return"

\* get_company_info, show_quotation.py 343-353.
QuotationCompanyInfoRaises(r) == r.status = StatusOK /\ r.kind # "json"
QuotationCompanyInfo(r) ==
    IF r.status = StatusOK THEN r.companies ELSE << >>

\* ------------------------------------------- the list operation alone
\* Limits a caller may pass to get_invoices / get_quotations.
CallLimits == {10, 100, 101}

\* A constructed client of either script, its credential loaded and
\* accepted by the probe, about to be asked for a list.
DirectListInit ==
    /\ pc = "call_list"
    /\ exitCode = 0
    /\ args_reauth = FALSE
    /\ kind \in Kinds
    /\ client_id = 1
    /\ client_secret = 1
    /\ access_token = 1
    /\ refresh_token \in {Absent, 1}
    /\ company_id \in {Absent} \cup CompanyIds
    /\ tokens_loaded = TRUE
    /\ file = FileOf([access_token |-> access_token,
                      refresh_token |-> refresh_token,
                      company_id |-> company_id, extra |-> 1])
    /\ issued = 1
    /\ tokenResp = NoTokenResp
    /\ caller = ""
    /\ req = NoReq
    /\ response = NoResp
    /\ callLog = << >>
    /\ companies = << >>
    /\ docsLeft = 0
    /\ probes = 1
    /\ refreshes = 0
    /\ auths = 0
    /\ probe = NoProbe
    /\ authCode = ""
    /\ exchanges = 0
    /\ selection = IF company_id = Absent THEN "none" ELSE "kept"
    /\ choice = 0
    /\ detailsWritten = 0
    /\ other = NoOther

\* get_invoices(limit=...) / get_quotations(limit=...), show_invoice.py 347
\* (show_quotation.py 355), called with any limit.
DirectList ==
    /\ pc = "call_list"
    /\ \E limit \in CallLimits : GetDocuments(limit)
    /\ exitCode' = exitCode
    /\ UNCHANGED << config, other, file, session, issued, tokenResp, companies,
                    counters >>
    /\ UNCHANGED history

\* get_invoice_detail(id) / get_quotation_detail(id), show_invoice.py 435
\* (show_quotation.py 438), called for one document.
DirectDetail ==
    /\ pc = "call_list"
    /\ pc' = "details"
    /\ docsLeft' = 1
    /\ UNCHANGED << exitCode, config, other, file, session, issued, tokenResp,
                    callvars, companies, counters >>
    /\ UNCHANGED history

DirectListNext ==
    \/ DirectList
    \/ DirectDetail
    \/ ApiSend
    \/ ApiRefresh
    \/ ApiRetry
    \/ ApiRaised
    \/ MainList
    \/ MainReport
    \/ MainDetail
    \/ DetailReturn
    \/ MainExcept

DirectListSpec == DirectListInit /\ [][DirectListNext]_vars

\* ------------------------------------------------------------- claims
\* The requests and the refresh attempts of the current _api_request call.
CallRequests == SelectSeq(callLog, LAMBDA e : e.ev = "request")
CallRefreshes == SelectSeq(callLog, LAMBDA e : e.ev = "refresh")
\* The first request of the call was answered with status s.
FirstAnswered == Len(callLog) >= 1 /\ callLog[1].ok
FirstStatus == callLog[1].resp.status
\* The call has refreshed, with the given result.
Refreshed(ok) ==
    Len(callLog) >= 2 /\ callLog[2].ev = "refresh" /\ callLog[2].ok = ok
CallEnded == pc \in {"api_return", "api_raise"}
CallPcs == {"api_send", "api_refresh", "api_retry"}

\* C1: in one call of _api_request at most one token refresh is attempted
\* and at most two HTTP requests are issued, whatever the server answers,
\* also when the retry is answered 401.
C1_OneRefreshTwoRequests ==
    /\ Len(CallRefreshes) <= 1
    /\ Len(CallRequests) <= 2

\* A call that returned after a 401, a refresh and a second 401.
C1_Witness ==
    /\ pc = "api_return"
    /\ Len(callLog) = 3
    /\ callLog[1].resp.status = Unauthorized
    /\ callLog[3].resp.status = Unauthorized
    /\ response.status = Unauthorized

\* C2: after a first 401 and a successful refresh the call issues exactly
\* one retry, after the refresh, with the method, url and params of the
\* first request and the Authorization of the token just obtained, and
\* returns the retry's response as it is (a second 401 included).
C2_RetryAfterRefresh ==
    (CallEnded /\ FirstAnswered /\ FirstStatus = Unauthorized
       /\ Refreshed(TRUE))
    => /\ Len(callLog) = 3
       /\ callLog[1].ev = "request"
       /\ callLog[3].ev = "request"
       /\ callLog[3].req.method = callLog[1].req.method
       /\ callLog[3].req.endpoint = callLog[1].req.endpoint
       /\ callLog[3].req.params = callLog[1].req.params
       /\ tokenResp.status = StatusOK
       /\ callLog[3].req.auth = tokenResp.access_token
       /\ callLog[3].req.auth = access_token
       /\ pc = "api_return" => callLog[3].ok /\ response = callLog[3].resp
       /\ pc = "api_raise" => ~callLog[3].ok

\* A list call whose retry, sent with the new token, was answered 401 again
\* and returned that answer.
C2_Witness ==
    /\ pc = "api_return"
    /\ caller = "list"
    /\ Refreshed(TRUE)
    /\ Len(callLog) = 3
    /\ callLog[3].req.auth # callLog[1].req.auth
    /\ response.status = Unauthorized

\* C3: after a first 401 and a failed refresh (token endpoint refusal,
\* missing refresh token, error in the refresh) no retry is issued and the
\* first 401 response is what the call returns.
C3_FailedRefreshReturns401 ==
    (FirstAnswered /\ FirstStatus = Unauthorized /\ Refreshed(FALSE))
    => /\ pc = "api_return"
       /\ Len(callLog) = 2
       /\ response = callLog[1].resp
       /\ response.status = Unauthorized

\* A call that returned its 401 after the token endpoint refused the
\* refresh.
C3_Witness ==
    /\ pc = "api_return"
    /\ Refreshed(FALSE)
    /\ tokenResp.status = 400
    /\ response.status = Unauthorized

\* What one step of the run may do with respect to _authenticate.
C4_Step ==
    /\ pc \in CallPcs =>
          /\ pc' \in CallPcs \cup {"api_return", "api_raise"}
          /\ auths' = auths
    /\ auths' # auths => pc = "authenticate" /\ caller = ""

\* C4: between the start and the return of _api_request the run never
\* enters _authenticate (the only place that asks for an authorization
\* code): it stays inside the call until the call returns or raises; and
\* _authenticate runs only while the session is being established, before
\* any request call.
C4_NoReauthInRequest == [][C4_Step]_vars

\* A call that returned after its refresh failed, in a run that never
\* authenticated.
C4_Witness ==
    /\ pc = "api_return"
    /\ Refreshed(FALSE)
    /\ auths = 0

\* C5: every call whose first response is 401 makes its own refresh
\* attempt, however many refreshes earlier calls or the session set-up made.
C5_RefreshPerCall ==
    (FirstAnswered /\ FirstStatus = Unauthorized)
    => \/ pc = "api_refresh" /\ Len(callLog) = 1
       \/ Len(callLog) >= 2 /\ callLog[2].ev = "refresh"

\* A call that refreshed after the set-up and two earlier calls had
\* refreshed too.
C5_Witness ==
    /\ pc = "api_return"
    /\ caller = "detail"
    /\ Len(CallRefreshes) = 1
    /\ refreshes >= 4

\* C6: a first response with a status other than 401 ends the call: one
\* HTTP request, no refresh, that response returned unmodified.
C6_Non401Returned ==
    (FirstAnswered /\ FirstStatus # Unauthorized)
    => /\ pc = "api_return"
       /\ Len(callLog) = 1
       /\ response = callLog[1].resp

\* A call that returned a 500 at once.
C6_Witness ==
    /\ pc = "api_return"
    /\ Len(callLog) = 1
    /\ response.status = 500

\* The effect of one successful refresh step on the company id.
C7_Step ==
    (/\ pc \in {"verify_refresh", "api_refresh"}
     /\ pc' \in {"select", "api_retry"}
     /\ company_id # Absent)
    => /\ company_id' = company_id
       /\ file'.state = "ok"
       /\ file'.company_id = company_id

\* C7: a successful refresh made while a company id is set leaves the
\* in-memory company_id as it was and persists a record with that same
\* company_id, whatever company_id the token response carries.
C7_CompanyIdSurvivesRefresh == [][C7_Step]_vars

\* A refresh just succeeded whose token response named another company, or
\* none, and the file holds the session's company id.
C7_Witness ==
    /\ pc = "api_retry"
    /\ company_id # Absent
    /\ tokenResp.status = StatusOK
    /\ tokenResp.company_id # company_id
    /\ file.company_id = company_id
    /\ file.access_token = tokenResp.access_token

\* The effect of one refresh or authenticate step on the token pair.
C8_Step ==
    pc \in {"verify_refresh", "api_refresh", "authenticate"}
    => \/ /\ access_token' = access_token
          /\ refresh_token' = refresh_token
       \/ /\ tokenResp'.status = StatusOK
          /\ tokenResp'.access_token # Absent
          /\ tokenResp'.refresh_token # Absent
          /\ access_token' = tokenResp'.access_token
          /\ refresh_token' = tokenResp'.refresh_token

\* C8 (as claimed): when refresh or authenticate is over, access_token and
\* refresh_token are both what they were before, or both the values of the
\* one token response.
C8_TokensReplacedTogether == [][C8_Step]_vars

\* C9 (as claimed): with --reauth, whatever the outcome of removing the
\* file, a session is established only through _authenticate: the existing
\* credential was discarded (never loaded) and no probe of the old token
\* was made.
C9_ReauthAlwaysAuthenticates ==
    (args_reauth /\ pc = "select")
    => /\ ~tokens_loaded
       /\ probes = 0
       /\ auths >= 1

\* C10: when no credential was loaded (file absent or unreadable) the
\* session goes straight to _authenticate: no probe and no refresh request
\* comes before the authorization-code flow.
C10_NotLoadedAuthenticates ==
    (/\ ~tokens_loaded
     /\ Configured(client_id, client_secret)
     /\ pc \notin {"main", "init", "load"})
    => /\ probes = 0
       /\ auths = 0 => pc = "authenticate" /\ refreshes = 0

\* The session is about to authenticate because the file was unreadable.
C10_Witness ==
    /\ pc = "authenticate"
    /\ ~tokens_loaded
    /\ file.state = "corrupt"
    /\ auths = 0

\* The refresh of this establishment returned True: a 200 answer carrying
\* both tokens, saved to the file.
RefreshSucceeded ==
    /\ tokenResp.status = StatusOK
    /\ tokenResp.access_token # Absent
    /\ tokenResp.refresh_token # Absent
    /\ file.state = "ok"
    /\ file.access_token = tokenResp.access_token

\* C11: with a loaded credential, a probe answered 200 makes the session
\* valid (company selection is next) with no refresh and no authorization
\* flow; a probe answered 401 leads to exactly one refresh attempt, whose
\* success makes the session valid without any authorization flow and
\* whose failure leads to _authenticate, not to the end of the process.
C11_ProbeOutcomes ==
    /\ probe.status = StatusOK
       => pc = "select" /\ tokens_loaded /\ refreshes = 0 /\ auths = 0
    /\ probe.status = Unauthorized
       => /\ tokens_loaded
          /\ auths = 0
          /\ \/ pc = "verify_refresh" /\ refreshes = 0
             \/ pc = "select" /\ refreshes = 1 /\ RefreshSucceeded
             \/ pc = "authenticate" /\ refreshes = 1 /\ ~RefreshSucceeded

\* A 401 probe was followed by one successful refresh and the session is
\* valid without _authenticate.
C11_Witness ==
    /\ pc = "select"
    /\ probe.status = Unauthorized
    /\ refreshes = 1
    /\ auths = 0
    /\ access_token = tokenResp.access_token

\* Statuses of the probe that are neither 200 nor 401.
OtherStatuses == Statuses \ {StatusOK, Unauthorized}

\* C12 as stated: a probe answered with a status other than 200 and 401 is
\* followed by no refresh and the session does not enter _authenticate.
C12_OtherStatusNoAuthenticate ==
    probe.status \in OtherStatuses
    => /\ refreshes = 0
       /\ pc # "authenticate"

\* C12, amended: a probe answered with a status other than 200 and 401
\* makes _verify_token return False without any refresh; nothing is raised
\* and __init__ itself goes on to _authenticate.
C12_OtherStatusAuthenticates ==
    probe.status \in OtherStatuses
    => /\ refreshes = 0
       /\ auths = 0
       /\ pc = "authenticate"
       /\ exitCode = 0

\* The probe was answered 500 and the session is about to authenticate.
C12_Witness ==
    /\ probe.status = 500
    /\ pc = "authenticate"
    /\ tokens_loaded
    /\ refreshes = 0

\* One run of _authenticate in which the code typed is empty.
C13_Step ==
    (pc = "authenticate" /\ auths' = auths + 1 /\ authCode' = "empty")
    => /\ pc' = "exit"
       /\ exitCode' = 1
       /\ exchanges' = exchanges
       /\ UNCHANGED << issued, tokenResp >>
       /\ UNCHANGED << access_token, refresh_token, company_id, file >>

\* C13: in _authenticate an empty (or whitespace-only) authorization code
\* ends the process with a non-zero status; no token-exchange request is
\* sent and neither the credential in memory nor the credential file is
\* modified.
C13_EmptyCodeFatal == [][C13_Step]_vars

\* The process ended on an empty code with a loaded credential and its
\* file still in place.
C13_Witness ==
    /\ pc = "exit"
    /\ exitCode = 1
    /\ authCode = "empty"
    /\ exchanges = 0
    /\ tokens_loaded
    /\ file.state = "ok"
    /\ access_token = file.access_token

\* One run of _authenticate in which a code was typed; the exchange
\* answered with a complete record when the status is 200 and both tokens
\* are in the body.
C14_Exchange == pc = "authenticate" /\ authCode' = "given"
C14_Complete ==
    /\ tokenResp'.status = StatusOK
    /\ tokenResp'.access_token # Absent
    /\ tokenResp'.refresh_token # Absent

C14_OriginalStep ==
    C14_Exchange
    => IF tokenResp'.status = StatusOK
       THEN pc' = "select" /\ file' = FileOf(TokenData(tokenResp'))
       ELSE pc' = "exit" /\ exitCode' = 1 /\ file' = file

\* C14 as stated: with a non-empty code, a 200 exchange persists the
\* returned credential and makes the session valid; any other exchange
\* ends the process with a non-zero status and the file as it was.
C14_ExchangeOutcomes == [][C14_OriginalStep]_vars

C14_AmendedStep ==
    C14_Exchange
    => /\ exchanges' = exchanges + 1
       /\ pc' \in {"select", "exit"}
       /\ pc' = "select"
          => /\ C14_Complete
             /\ file' = FileOf(TokenData(tokenResp'))
             /\ access_token' = tokenResp'.access_token
             /\ refresh_token' = tokenResp'.refresh_token
             /\ company_id' = tokenResp'.company_id
       /\ pc' = "exit"
          => /\ exitCode' = 1
             /\ file' = file \/ (C14_Complete /\ file' = CorruptFile)
       /\ ~C14_Complete => pc' = "exit" /\ file' = file
       /\ (C14_Complete /\ file' = FileOf(TokenData(tokenResp')))
          => pc' = "select"

\* C14, amended: with a non-empty code, a 200 exchange carrying both tokens
\* whose save succeeds persists the returned record and makes the session
\* valid; every other exchange ends the process with status 1, the file
\* as it was for a non-200 answer, an exception or a 200 body lacking a
\* token, and as it was or unreadable for a 200 exchange whose save fails.
C14_ExchangePersistsOrFatal == [][C14_AmendedStep]_vars

\* The exchange was refused after a failed refresh; the old file is there.
C14_Witness ==
    /\ pc = "exit"
    /\ exitCode = 1
    /\ authCode = "given"
    /\ exchanges = 1
    /\ refreshes = 1
    /\ tokenResp.status = 400
    /\ file.state = "ok"

C16_Step ==
    (pc = "select" /\ company_id # Absent)
    => /\ pc' = "constructed"
       /\ selection' = "kept"
       /\ company_id' = company_id
       /\ file' = file
       /\ UNCHANGED << callvars, companies, choice >>

\* C16: when the credential already carries a company id as company
\* selection runs, that id is kept unchanged: no company list is fetched
\* by the selection, no prompt is issued and nothing is written to the
\* credential file.
C16_CompanyIdKept == [][C16_Step]_vars

\* The client was constructed with the company id of the file.
C16_Witness ==
    /\ pc = "constructed"
    /\ selection = "kept"
    /\ tokens_loaded
    /\ company_id # Absent
    /\ file.company_id = company_id

\* _fetch_company_id got an empty list (an empty 'companies' or any
\* status but 200).
C17_EmptyList ==
    /\ pc = "api_return"
    /\ caller = "fetch_company"
    /\ ~CompanyInfoRaises(response)
    /\ Len(CompanyInfo(response)) = 0

\* The selection itself on an empty list.
C17_SelectionStep ==
    C17_EmptyList
    => /\ pc' = "constructed"
       /\ selection' = "none"
       /\ company_id = Absent
       /\ company_id' = company_id
       /\ file' = file

\* After a selection that found no company: no prompt, no document request.
C17_NoDocuments ==
    selection = "none"
    => /\ company_id = Absent
       /\ pc \notin {"choose_company", "menu", "details"}
       /\ caller \in {"", "main_companies"}
       /\ req.endpoint \in {"", "companies"}

\* C17 as stated: with no company id set and an empty company list the
\* selection leaves company_id unset and the file unmodified, no prompt and
\* no document request follows, and the run ends with exit code 0.
C17_EmptyListExitsZero ==
    /\ [][C17_SelectionStep]_vars
    /\ [](C17_NoDocuments /\ ((selection = "none" /\ pc = "exit")
                               => exitCode = 0))

\* The end of a run whose selection found no company: main's own companies
\* request decides the exit status.
C17_ExitStep ==
    (selection = "none" /\ pc # "exit" /\ pc' = "exit")
    => \/ /\ exitCode' = 0
          /\ pc = "api_return"
          /\ ~CompanyInfoRaises(response)
       \/ /\ exitCode' = 1
          /\ pc \in {"api_raise", "main_except"}

\* What reaches main's handler in such a run is an exception of the second
\* companies request or of writing the note.
C17_RaiseStep ==
    (selection = "none" /\ pc' = "main_except")
    => /\ pc = "api_return"
       /\ CompanyInfoRaises(response) \/ Len(CompanyInfo(response)) = 0

\* C17, amended: with no company id set and an empty company list the
\* selection leaves company_id unset and the file unmodified, and no prompt
\* and no document request follows; main then requests the company list
\* once more and the run ends with exit code 0 when that request returns
\* an answer main can use, with exit code 1 when that request raises or
\* the note on the empty list cannot be written.
C17_EmptyListNoDocuments ==
    /\ [][C17_SelectionStep /\ C17_ExitStep /\ C17_RaiseStep]_vars
    /\ []C17_NoDocuments

\* The run ended with status 0 after a selection that found no company.
C17_Witness ==
    /\ pc = "exit"
    /\ exitCode = 0
    /\ selection = "none"
    /\ company_id = Absent

\* _fetch_company_id has the list `got` in hand.
C18_Fetched(n) ==
    /\ pc = "api_return"
    /\ caller = "fetch_company"
    /\ ~CompanyInfoRaises(response)
    /\ Len(CompanyInfo(response)) = n

C18_Step ==
    /\ C18_Fetched(1)
       => /\ company_id' = CompanyInfo(response)[1]
          /\ selection' = "auto"
          /\ pc' = "constructed"
          /\ choice' = choice
    /\ (\E n \in 2..MaxCompanies : C18_Fetched(n))
       => /\ companies' = CompanyInfo(response)
          /\ company_id' = Absent
          /\ pc' = "choose_company"
    /\ pc = "choose_company"
       => IF choice' \in 1..Len(companies)
          THEN /\ company_id' = companies[choice']
               /\ selection' = "chosen"
               /\ pc' = "constructed"
          ELSE /\ company_id' = Absent
               /\ selection' = selection
               /\ pc' = "choose_company"

\* C18: a company list of length 1 selects its single company without a
\* prompt; a list of length N > 1 prompts until an answer is an integer in
\* [1, N]: every other answer leaves company_id unset and prompts again,
\* and the first answer k in [1, N] selects the id of the k-th company.
C18_SelectionByList == [][C18_Step]_vars

\* The second company of a list of two was chosen at the prompt.
C18_Witness ==
    /\ pc = "constructed"
    /\ selection = "chosen"
    /\ Len(companies) = 2
    /\ choice = 2
    /\ company_id = companies[2]

\* A step of _fetch_company_id that selects a company.
C19_Selected == selection = "" /\ selection' \in {"auto", "chosen"}

\* The file after the step holds the selected id and the other fields of
\* the file before it.
C19_Persisted ==
    /\ file'.state = "ok"
    /\ file'.company_id = company_id'
    /\ file'.access_token = file.access_token
    /\ file'.refresh_token = file.refresh_token
    /\ file'.extra = file.extra

C19_OriginalStep == C19_Selected => C19_Persisted

\* C19 as stated: after a company is selected the credential file holds
\* company_id equal to the selected id and every other field with the
\* value it had in the file before the selection.
C19_SelectionPersisted == [][C19_OriginalStep]_vars

C19_AmendedStep ==
    C19_Selected
    => /\ company_id' # Absent
       /\ \/ C19_Persisted
          \/ file' = file
          \/ file.state = "ok" /\ file' = CorruptFile

\* C19, amended: after a company is selected the file is read, company_id
\* set and the record saved; when the save succeeds the file holds the
\* selected id and every other field with its value from before, and when
\* the file cannot be read or the save fails the selection stays in memory
\* only and the file is as it was, or unreadable after a failed write.
C19_SelectionPersistedOrReported == [][C19_AmendedStep]_vars

\* The chosen id is in the file next to the tokens the file had.
C19_Witness ==
    /\ pc = "constructed"
    /\ selection = "chosen"
    /\ file.state = "ok"
    /\ file.company_id = company_id
    /\ file.access_token = access_token
    /\ file.extra # Absent

\* A successful save writes the record held, every field of it.
C20_SaveStep ==
    (pc = "save" /\ pc' = "load")
    => file' = [state |-> "ok",
                access_token |-> tokenResp.access_token,
                refresh_token |-> tokenResp.refresh_token,
                company_id |-> tokenResp.company_id,
                extra |-> tokenResp.extra]

\* The load after a successful save gives the fields of the record saved.
C20_Loaded ==
    (pc \in {"verify", "authenticate"} /\ tokenResp.status = StatusOK)
    => /\ tokens_loaded
       /\ access_token = tokenResp.access_token
       /\ refresh_token = tokenResp.refresh_token
       /\ company_id = tokenResp.company_id

C21_LimitCapped ==
    req.endpoint = "list" => req.params.limit <= 100

\* C22: a list call answered 200 with a Content-Type that is not JSON
\* returns the empty sequence and does not raise.
C22_Step ==
    (/\ pc = "api_return"
     /\ caller = "list"
     /\ response.status = StatusOK
     /\ response.kind = "html")
    => (pc' = "report" /\ docsLeft' = 0 /\ exitCode' = exitCode)

C22_NonJsonListIsEmpty == [][C22_Step]_vars

C22_Witness ==
    /\ pc = "api_return"
    /\ caller = "list"
    /\ response.status = StatusOK
    /\ response.kind = "html"

\* C23: a list or detail call whose final response has a status other than
\* 200, a 401 that survived the refresh included, returns the empty result
\* (no document): nothing is raised and the run goes on.
C23_Step ==
    (/\ pc = "api_return"
     /\ caller \in {"list", "detail"}
     /\ response.status # StatusOK)
    => /\ exitCode' = exitCode
       /\ caller = "list" => (pc' = "report" /\ docsLeft' = 0)
       /\ caller = "detail" =>
             (pc' = "details" /\ detailsWritten' = detailsWritten)

C23_FailureStatusDegrades == [][C23_Step]_vars

C23_Witness ==
    /\ pc = "api_return"
    /\ caller = "detail"
    /\ response.status = Unauthorized
    /\ Len(callLog) > 1

\* C24: a network error during a list or detail request is handled where
\* the operation was called: the run goes on to its report and does not
\* end with a non-zero exit code.
C24_Step ==
    (pc = "api_raise" /\ caller \in {"list", "detail"})
    => (pc' \in {"report", "details"} /\ exitCode' = exitCode)

C24_NetworkErrorRecoverable == [][C24_Step]_vars

\* C25: for every 200 answer the detail operation returns the document or
\* nothing; no 200 body makes it raise.
C25_Step ==
    (/\ pc = "api_return"
     /\ caller = "detail"
     /\ response.status = StatusOK)
    => (pc' = "details" /\ exitCode' = exitCode)

C25_DetailNeverRaises == [][C25_Step]_vars

\* C26: with client_id or client_secret absent the run ends in a fatal
\* configuration error before any network activity: no request is sent, no
\* authorization code is asked for, and the exit code is not zero.
C26_MissingConfigFatal ==
    (client_id = Absent \/ client_secret = Absent)
    => /\ pc \in {"main", "init", "main_except", "exit"}
       /\ probes = 0
       /\ refreshes = 0
       /\ auths = 0
       /\ exchanges = 0
       /\ authCode = ""
       /\ caller = ""
       /\ callLog = << >>
       /\ pc = "exit" => exitCode # 0

C26_Witness ==
    /\ client_id # Absent
    /\ client_secret = Absent
    /\ pc = "exit"

C27_Raised == pc \in {"api_raise", "main_except"}
C27_Fatal ==
    /\ pc = "authenticate"
    /\ \/ authCode' = "empty"
       \/ authCode' = "given" /\ ~C14_Complete

C27_Step ==
    /\ (pc # "exit" /\ pc' = "exit")
       => exitCode' = IF pc = "authenticate" \/ C27_Raised THEN 1 ELSE 0
    /\ C27_Raised => (pc' = "exit" /\ exitCode' = 1)
    /\ C27_Fatal => (pc' = "exit" /\ exitCode' = 1)

\* C27: the process exits with 0 on every normal completion, runs without
\* companies or documents included, and with a non-zero status when
\* _authenticate gives up (empty code, failed exchange) and on every
\* exception that reaches main.
C27_ExitCodes ==
    [][C27_Step]_vars /\ [](pc # "exit" => exitCode = 0)

\* A run that found no company ended normally.
C27_Witness ==
    /\ pc = "exit"
    /\ exitCode = 0
    /\ selection = "none"
    /\ company_id = Absent
    /\ probes + auths > 0

C28_Step ==
    /\ (FileExists(file) /\ ~FileExists(file')) => pc = "main"
    /\ pc = "verify" => file' = file
    /\ (pc \in {"verify_refresh", "api_refresh", "authenticate"}
        /\ tokenResp'.status # StatusOK) => file' = file
    /\ pc \in {"api_send", "api_retry", "api_raise"} => file' = file
    /\ (pc = "api_return" /\ caller \in {"list", "detail"})
       => file' = file

C30_Refreshed ==
    /\ pc \in {"verify_refresh", "api_refresh"}
    /\ pc' \in {"select", "api_retry"}
    /\ file.state = "ok"

C30_OriginalStep ==
    C30_Refreshed
    => file' = [file EXCEPT !.access_token = tokenResp'.access_token,
                            !.refresh_token = tokenResp'.refresh_token]

\* C30 as stated: the record persisted by a successful refresh is the
\* record persisted before with only access_token and refresh_token
\* replaced, every other persisted field retained.
C30_RefreshMergesIntoRecord == [][C30_OriginalStep]_vars

C30_AmendedStep ==
    C30_Refreshed
    => /\ file'.state = "ok"
       /\ file'.access_token = tokenResp'.access_token
       /\ file'.refresh_token = tokenResp'.refresh_token
       /\ file'.extra = tokenResp'.extra
       /\ file'.company_id = IF company_id # Absent THEN company_id
                             ELSE tokenResp'.company_id

\* C30, amended: the record persisted by a successful refresh is the token
\* response itself, with its company_id replaced by the company id in
\* memory when one is set; nothing is read from the record persisted
\* before.
C30_RefreshRecordIsResponse == [][C30_AmendedStep]_vars

\* A refresh succeeded with no company id in memory, and the record holds
\* the company id and the opaque fields of the response.
C30_Witness ==
    /\ pc = "select"
    /\ refreshes = 1
    /\ auths = 0
    /\ company_id = Absent
    /\ tokenResp.status = StatusOK
    /\ tokenResp.company_id # Absent
    /\ file = FileOf(TokenData(tokenResp))

C31_After401 ==
    /\ pc = "verify_refresh"
       => (probe.status = Unauthorized /\ probe.auth = access_token)
    /\ pc = "api_refresh"
       => /\ response.status = Unauthorized
          /\ req.auth = access_token
          /\ callLog # << >>
          /\ callLog[Len(callLog)] = RequestEv(req, response, FALSE)

C31_Step ==
    refreshes' # refreshes => pc \in {"verify_refresh", "api_refresh"}

\* C31: every refresh follows at once a 401 answer to the probe or to an
\* API request made with the access token in memory; none is made after a
\* 200 probe, before the first request, or on a timer.
C31_RefreshIsReactive == [][C31_Step]_vars /\ []C31_After401

\* The second refresh of a run, made after a list request's 401, has
\* succeeded.
C31_Witness ==
    /\ pc = "api_retry"
    /\ caller = "list"
    /\ refreshes = 2
    /\ response.status = Unauthorized
    /\ access_token = tokenResp.access_token

C32_Establishing ==
    pc \in {"load", "verify", "verify_refresh", "authenticate"}
C32_Terminal == pc \in {"select", "exit"}

C32_AtMostOnce ==
    (C32_Establishing \/ C32_Terminal)
    => (probes <= 1 /\ refreshes <= 1 /\ auths <= 1 /\ exchanges <= 1)

C32_Step ==
    /\ pc = "authenticate" => pc' \in {"select", "exit"}
    /\ pc = "verify_refresh" => pc' \in {"select", "authenticate"}
    /\ pc = "verify" => pc' \in {"select", "verify_refresh", "authenticate"}

\* C32: session establishment ends with the session valid or with the
\* process exited, after at most one probe, one refresh and one code
\* exchange, given that every request returns or fails and the prompt is
\* answered; _authenticate is never followed by a probe or a refresh.
C32_EstablishmentTerminates ==
    /\ [][C32_Step]_vars
    /\ []C32_AtMostOnce
    /\ (C32_Establishing ~> C32_Terminal)

\* The longest establishment: probe, refresh and exchange, one of each.
C32_Witness ==
    /\ pc = "select"
    /\ probes = 1
    /\ refreshes = 1
    /\ exchanges = 1

C33_Scoped ==
    /\ req.endpoint \in {"list", "detail"}
       => (company_id # Absent /\ req.params.company_id = company_id)
    /\ caller \in {"list", "detail"}
       => \A i \in DOMAIN callLog :
             callLog[i].ev = "request"
             => callLog[i].req.params.company_id = company_id

C33_Step ==
    company_id = Absent
    => /\ caller' = ""
       /\ req' = NoReq
       /\ callLog' = << >>
       /\ detailsWritten' = detailsWritten
       /\ pc = "call_list" => (pc' = "details" \/ docsLeft' = 0)

\* C33: every list or detail request carries the company_id of the
\* session as its company_id parameter; without a company id the list
\* operation returns nothing and the detail operation no document, and no
\* request is sent.
C33_QueriesScopedToCompany == [][C33_Step]_vars /\ []C33_Scoped

\* A detail call made without a company id came back with nothing.
C33_Witness ==
    /\ company_id = Absent
    /\ pc = "details"
    /\ docsLeft = 0
    /\ detailsWritten = 0

\* The session is established and no operation of the client is running.
C34_Idle == pc \in {"select", "constructed", "menu", "report", "details"}

\* C34: whenever the session is established and idle, the credential file
\* holds the access_token and refresh_token held in memory, whatever the
\* outcomes of the refreshes and saves made so far.
C34_FileMirrorsMemory ==
    C34_Idle
    => /\ file.state = "ok"
       /\ file.access_token = access_token
       /\ file.refresh_token = refresh_token

\* What _api_request did before the exception left it: one request that
\* raised, or a 401, a successful refresh and a retry that raised, the
\* refreshed tokens being in memory and in the file.
C35_Raised ==
    pc = "api_raise"
    => /\ callLog[Len(callLog)] = RequestEv(req, NoResp, TRUE)
       /\ \/ Len(callLog) = 1
          \/ /\ Len(callLog) = 3
             /\ callLog[1].resp.status = Unauthorized
             /\ callLog[2] = RefreshEv(TRUE)
             /\ tokenResp.status = StatusOK
             /\ access_token = tokenResp.access_token
             /\ refresh_token = tokenResp.refresh_token
             /\ req.auth = access_token
             /\ file.state = "ok"
             /\ file.access_token = access_token
             /\ file.refresh_token = refresh_token

C35_Step ==
    /\ (pc = "api_send" /\ pc' = "api_raise")
       => (refreshes' = refreshes /\ UNCHANGED << session, file >>)
    /\ pc = "api_raise"
       => /\ pc' = "exit"
          /\ refreshes' = refreshes
          /\ UNCHANGED << session, file >>

\* C35: a transport failure of the first request of a call leaves
\* _api_request as an exception with no refresh and no retry made; one of
\* the retry after a successful refresh does so too, and the refreshed
\* tokens stay in memory and in the credential file.
C35_TransportFailureSurfaced == [][C35_Step]_vars /\ []C35_Raised

\* The retry after a successful refresh has raised.
C35_Witness ==
    /\ pc = "api_raise"
    /\ Len(callLog) = 3
    /\ caller = "detail"

C36_Step ==
    /\ (pc = "verify" /\ probes' = probes + 1 /\ probe'.status = Absent)
       => (pc' = "authenticate" /\ exitCode' = exitCode)
    /\ (pc = "verify_refresh" /\ tokenResp'.status = Absent)
       => (pc' = "authenticate" /\ exitCode' = exitCode)

\* C36: while the session is being established, an exception raised by the
\* probe request or by the refresh request does not leave _verify_token or
\* _refresh_access_token and does not end the process: the verification
\* has failed and _authenticate is next.
C36_EstablishmentSwallowsTransport == [][C36_Step]_vars

\* The refresh after the probe's 401 got no answer; the prompt is next.
C36_Witness ==
    /\ pc = "authenticate"
    /\ probe.status = Unauthorized
    /\ refreshes = 1
    /\ refresh_token # Absent
    /\ tokenResp.status = Absent

C37_Step ==
    (pc = "authenticate" /\ pc' = "select")
    => /\ tokenResp'.status = StatusOK
       /\ company_id' = tokenResp'.company_id
       /\ file'.state = "ok"
       /\ file'.access_token = tokenResp'.access_token
       /\ file'.refresh_token = tokenResp'.refresh_token
       /\ file'.company_id = tokenResp'.company_id
       /\ file'.extra = tokenResp'.extra

\* C37: after a successful code exchange the company_id in memory is that
\* of the token response, unset when the response has none, and the record
\* in the file is the token response, whatever company_id was loaded from
\* the file before; a company id stored before a failed refresh is gone.
C37_ExchangeReplacesCompany == [][C37_Step]_vars

\* A credential was loaded, its refresh failed, and the exchange that
\* followed brought no company id.
C37_Witness ==
    /\ pc = "select"
    /\ tokens_loaded
    /\ refreshes = 1
    /\ exchanges = 1
    /\ tokenResp.status = StatusOK
    /\ tokenResp.company_id = Absent
    /\ company_id = Absent
    /\ file.company_id = Absent

\* main has the company list it fetched after the client was constructed.
C38_Checked ==
    /\ pc = "api_return"
    /\ caller = "main_companies"
    /\ ~CompanyInfoRaises(response)

C38_Listed ==
    \E i \in DOMAIN CompanyInfo(response) :
        CompanyInfo(response)[i] = company_id

C38_OriginalStep ==
    /\ pc' = "menu" => (pc = "menu" \/ (C38_Checked /\ C38_Listed))
    /\ (C38_Checked /\ ~C38_Listed)
       => (pc' = "exit" /\ exitCode' = 0 /\ caller' = "")

C38_DocumentsNeedCompany ==
    (pc \in {"menu", "report", "details"} \/ caller \in {"list", "detail"})
    => company_id # Absent

\* C38 as stated: document requests are made only when the company list
\* main fetched holds the session's company_id; with an empty list or one
\* without that id the run ends with exit code 0 and no document request.
C38_UnlistedExitsZero ==
    [][C38_OriginalStep]_vars /\ []C38_DocumentsNeedCompany

C38_AmendedStep ==
    /\ pc' = "menu" => (pc = "menu" \/ (C38_Checked /\ C38_Listed))
    /\ (C38_Checked /\ ~C38_Listed)
       => /\ caller' = ""
          /\ \/ pc' = "exit" /\ exitCode' = 0
             \/ /\ Len(CompanyInfo(response)) = 0
                /\ pc' = "main_except"
    /\ (C38_Checked /\ C38_Listed) => pc' = "menu"

\* C38, amended: document requests are made only when the company list
\* main fetched holds the session's company_id; with a list that lacks the
\* id the run ends with exit code 0 and no document request, and with an
\* empty list it does so too unless the note on the empty list cannot be
\* written, which ends the run through main's exception handler.
C38_UnlistedNoDocuments ==
    [][C38_AmendedStep]_vars /\ []C38_DocumentsNeedCompany

\* main's list holds companies, none of them the session's.
C38_Witness ==
    /\ C38_Checked
    /\ company_id # Absent
    /\ Len(CompanyInfo(response)) > 0
    /\ ~C38_Listed

\* C39: with two processes of the script on one credential file, tokens
\* saved by a successful refresh are never replaced in the file by older
\* tokens written by the other process: the token pair in the file never
\* goes back to an earlier generation.
C39_Step ==
    (file.state = "ok" /\ file'.state = "ok")
    => /\ file'.access_token >= file.access_token
       /\ file'.refresh_token >= file.refresh_token

C39_FileTokensNeverOlder == [][C39_Step]_vars

====
